---- MODULE Spec2Model ----
(***************************************************************************)
(* One labeling pass of internal/lm/mig-strategy.go: NewResourceLabeler    *)
(* and the functions it calls, as a state machine over a fixed inventory   *)
(* of accelerators.  Every call to the NVML / mig.DeviceInfo collaborator  *)
(* is one step that either succeeds or fails.                              *)
(***************************************************************************)
EXTENDS Integers, Sequences, FiniteSets, TLC

(* ---------------------------- bounds ----------------------------------- *)
MaxDevices == 3
MaxMigsPerDevice == 2
MaxNodeMigs == 3
MaxSlices == 3
MaxGB == 2

(* ------------------------- strategy names ------------------------------ *)
MigStrategyNone == "none"
MigStrategySingle == "single"
MigStrategyMixed == "mixed"
\* a value of the flag that is none of the three constants
UnknownStrategy == "bogus"
Strategies == {MigStrategyNone, MigStrategySingle, MigStrategyMixed, UnknownStrategy}

fullGPUResourceName == "nvidia.com/gpu"
MigResourcePrefix == "nvidia.com/mig-"
MigStrategyLabelKey == "nvidia.com/mig.strategy"

ReasonEmpty == "at least one MIG device is enabled but empty"
ReasonMixed == "devices with MIG enabled and disable detected"
ReasonMultiple == "more than one MIG device type present on node"
NoReason == ""

(* ------------------------ the device inventory ------------------------- *)
\* attributes of the MIG devices of the inventories of Spec: two memory
\* sizes of one flavor (1g.5gb) and one other flavor (3g.20gb)
MigProfiles ==
  { [g |-> 1, mem |-> 4864], [g |-> 1, mem |-> 5120], [g |-> 3, mem |-> 20096] }

\* attributes of the MIG devices of the inventories of SpecFlavor: every
\* slice count up to MaxSlices with the memory sizes around each multiple of
\* 1024 MB up to MaxGB, and the 20096 MB of an A100 3g.20gb
BoundaryMemorySizes ==
  { k * 1024 + d : k \in 0..MaxGB, d \in {0, 1, 1023} } \cup {20096}
FlavorProfiles ==
  [g : 0..MaxSlices, mem : BoundaryMemorySizes]

RECURSIVE SeqsUpTo(_, _)
SeqsUpTo(S, n) ==
  IF n = 0 THEN { <<>> }
  ELSE LET shorter == SeqsUpTo(S, n - 1)
       IN shorter \cup { Append(s, x) : s \in { t \in shorter : Len(t) = n - 1 }, x \in S }

\* an accelerator: MIG mode on or off, and its MIG devices (none when off)
DevicesOver(profiles, maxMigs) ==
  { [enabled |-> FALSE, migs |-> <<>>] }
    \cup { [enabled |-> TRUE, migs |-> m] : m \in SeqsUpTo(profiles, maxMigs) }

\* the inventories of exactly n accelerators with at most k MIG devices in all
RECURSIVE InventoriesOf(_, _)
InventoriesOf(n, k) ==
  IF n = 0 THEN { <<>> }
  ELSE UNION { { Append(rest, d) : rest \in InventoriesOf(n - 1, k - Len(d.migs)) } :
                 d \in DevicesOver(MigProfiles,
                                   IF k < MaxMigsPerDevice THEN k ELSE MaxMigsPerDevice) }

Inventories == UNION { InventoriesOf(n, MaxNodeMigs) : n \in 0..MaxDevices }

FlavorInventories ==
  SeqsUpTo(DevicesOver(FlavorProfiles, 1), 2)

VARIABLES
  strategy,        \* *config.Flags.MigStrategy
  devices,         \* the accelerators of the node, as NVML reports them
  pc,              \* the call in progress
  err,             \* the error NewResourceLabeler returns: "none", "query", "config"
  result,          \* what NewResourceLabeler returns
  failed,          \* the device query that failed, "" when none did
  queries,         \* the device queries made so far, in order
  fullGPULabeler,  \* newGPULabelers' labels
  reason,          \* the reason newInvalidMigStrategyLabeler logged
  migs,            \* GetAllMigDevices' list
  idx,             \* position of the range loop over migs
  resources,       \* map[string]migResource
  pending,         \* keys of resources newMIGDeviceLabelers has not visited
  labeler,         \* the strategy's labeler, a list of label sets
  merges           \* the lists of label sets composed so far

vars == << strategy, devices, pc, err, result, failed, queries, fullGPULabeler,
           reason, migs, idx, resources, pending, labeler, merges >>

(* ----------------------------- labels ---------------------------------- *)
\* resourceLabeler: the keys it writes under a resource name
LabelKeys(name) == { name \o ".product", name \o ".count", name \o ".memory" }

\* a label set: its kind, the resource it is about, the count it publishes
LabelSet(kind, name, count, keys) ==
  [kind |-> kind, name |-> name, count |-> count, keys |-> keys]

NewGPUResourceLabeler(count) ==
  LabelSet("full", fullGPUResourceName, count, LabelKeys(fullGPUResourceName))

NewMIGResourceLabeler(resource) ==
  LabelSet("mig", resource.name, resource.count, LabelKeys(resource.name))

migStrategyLabeler(s) == LabelSet("strategy", "", 0, {MigStrategyLabelKey})

\* line 217-224: product label with MIG / INVALID, count 0, memory 0
InvalidLabels ==
  LabelSet("invalid", fullGPUResourceName, 0, LabelKeys(fullGPUResourceName))

(* -------------------- Partition Attribute Classifier ------------------- *)
Digit == << "0", "1", "2", "3", "4", "5", "6", "7", "8", "9" >>

\* fmt's %d of a non-negative integer
RECURSIVE FormatDecimal(_)
FormatDecimal(n) ==
  IF n < 10 THEN Digit[n + 1]
  ELSE FormatDecimal(n \div 10) \o Digit[(n % 10) + 1]

\* a division that rounds down
MemoryGBFloor(memorySizeMB) == memorySizeMB \div 1024

\* line 285; MemorySizeMB is a uint64 and the sizes of the model are far from
\* 2^64 - 1023, where the sum would wrap
MemoryGB(memorySizeMB) == (memorySizeMB + 1024 - 1) \div 1024

\* getMigDeviceName: "%dg.%dgb"
getMigDeviceName(attr) ==
  FormatDecimal(attr.g) \o "g." \o FormatDecimal(MemoryGB(attr.mem)) \o "gb"

(* ------------------------- mig.DeviceInfo ------------------------------ *)
GetDevicesWithMigEnabled(devs) ==
  SelectSeq([i \in 1..Len(devs) |-> i], LAMBDA i : devs[i].enabled)

GetDevicesWithMigDisabled(devs) ==
  SelectSeq([i \in 1..Len(devs) |-> i], LAMBDA i : ~devs[i].enabled)

AnyMigEnabledDeviceIsEmpty(devs) ==
  \E i \in 1..Len(devs) : devs[i].enabled /\ Len(devs[i].migs) = 0

\* the MIG devices of the enabled accelerators, in discovery order; a MIG
\* device handle is the accelerator's index and the position on it
RECURSIVE MigsUpTo(_, _)
MigsUpTo(devs, n) ==
  IF n = 0 THEN <<>>
  ELSE MigsUpTo(devs, n - 1) \o
       ( IF devs[n].enabled
         THEN [j \in 1..Len(devs[n].migs) |-> [dev |-> n, pos |-> j]]
         ELSE <<>> )

GetAllMigDevices(devs) == MigsUpTo(devs, Len(devs))

GetAttributes(devs, mig) == devs[mig.dev].migs[mig.pos]

(* ------------------------ Resource Aggregator -------------------------- *)
NoResources == [n \in {} |-> 0]

\* line 176 / 188: the single strategy publishes every flavor as nvidia.com/gpu
SingleResourceName(name) == fullGPUResourceName

\* the mixed strategy naming every flavor as the single strategy does
MixedResourceNameFixed(name) == fullGPUResourceName

\* line 252
MixedResourceName(name) == MigResourcePrefix \o name

\* the count increased on the first occurrence only
AddResourceCountOnce(res, name, mig, resourceName) ==
  IF name \in DOMAIN res
  THEN res
  ELSE [n \in DOMAIN res \cup {name} |->
          IF n = name
          THEN [name |-> resourceName, device |-> mig, count |-> 1]
          ELSE res[n]]

\* one iteration of the range loop over migs, after getMigDeviceName
AddResource(res, name, mig, resourceName) ==
  IF name \in DOMAIN res
  THEN [res EXCEPT ![name].count = @ + 1]
  ELSE [n \in DOMAIN res \cup {name} |->
          IF n = name
          THEN [name |-> resourceName, device |-> mig, count |-> 1]
          ELSE res[n]]

(* ------------------------------ results -------------------------------- *)
Pending == [status |-> "pending", labels |-> <<>>]
Failure == [status |-> "error", labels |-> <<>>]
Labels(list) == [status |-> "ok", labels |-> list]

KeySets(list) == [i \in 1..Len(list) |-> list[i].keys]

\* return nil, fmt.Errorf(...): the pass ends with error kind e; q is the
\* device query that failed, "" when the error is not a query's
Abort(q, e) ==
  /\ pc' = "done"
  /\ err' = e
  /\ failed' = q
  /\ result' = Failure

Called(q) == queries' = Append(queries, q)

(* ------------------------------- Init ---------------------------------- *)
InitPass ==
  /\ pc = "NewResourceLabeler"
  /\ err = "none"
  /\ result = Pending
  /\ failed = ""
  /\ queries = <<>>
  /\ fullGPULabeler = LabelSet("unset", "", 0, {})
  /\ reason = NoReason
  /\ migs = <<>>
  /\ idx = 1
  /\ resources = NoResources
  /\ pending = {}
  /\ labeler = <<>>
  /\ merges = <<>>

Init ==
  /\ strategy \in Strategies
  /\ devices \in Inventories
  /\ InitPass

InitFlavor ==
  /\ strategy \in Strategies
  /\ devices \in FlavorInventories
  /\ InitPass

(* ------------------------ NewResourceLabeler --------------------------- *)
\* lines 46-53
GetDeviceCount ==
  /\ pc = "NewResourceLabeler"
  /\ Called("GetDeviceCount")
  /\ \E ok \in BOOLEAN :
       IF ~ok
       THEN Abort("GetDeviceCount", "query")
       ELSE IF Len(devices) = 0
            THEN /\ pc' = "done"
                 /\ result' = Labels(<<>>)
                 /\ UNCHANGED << err, failed >>
            ELSE /\ pc' = "newGPULabelers"
                 /\ UNCHANGED << err, failed, result >>
  /\ UNCHANGED << strategy, devices, fullGPULabeler, reason, migs, idx,
                  resources, pending, labeler, merges >>

\* lines 113-120
GPUGetDeviceCount ==
  /\ pc = "newGPULabelers"
  /\ Called("GetDeviceCount")
  /\ \E ok \in BOOLEAN :
       IF ~ok
       THEN Abort("GetDeviceCount", "query")
       ELSE IF Len(devices) = 0
            THEN Abort("", "nodevices")
            ELSE /\ pc' = "NewDevice"
                 /\ UNCHANGED << err, failed, result >>
  /\ UNCHANGED << strategy, devices, fullGPULabeler, reason, migs, idx,
                  resources, pending, labeler, merges >>

\* lines 123-127: the loop breaks after its first iteration
GPUNewDevice ==
  /\ pc = "NewDevice"
  /\ Called("NewDevice")
  /\ \E ok \in BOOLEAN :
       IF ~ok
       THEN Abort("NewDevice", "query")
       ELSE /\ pc' = "NewGPUResourceLabeler"
            /\ UNCHANGED << err, failed, result >>
  /\ UNCHANGED << strategy, devices, fullGPULabeler, reason, migs, idx,
                  resources, pending, labeler, merges >>

\* lines 128-138
GPUResourceLabeler ==
  /\ pc = "NewGPUResourceLabeler"
  /\ Called("NewGPUResourceLabeler")
  /\ \E ok \in BOOLEAN :
       IF ~ok
       THEN /\ Abort("NewGPUResourceLabeler", "query")
            /\ UNCHANGED fullGPULabeler
       ELSE /\ fullGPULabeler' = NewGPUResourceLabeler(Len(devices))
            /\ pc' = "newMigLabeler"
            /\ UNCHANGED << err, failed, result >>
  /\ UNCHANGED << strategy, devices, reason, migs, idx,
                  resources, pending, labeler, merges >>

\* a switch whose default case falls back to the empty labeler of `none`
StrategyBranchFallbackNone(s) ==
  CASE s = MigStrategySingle -> "GetDevicesWithMigEnabled"
    [] s = MigStrategyMixed -> "mixed.GetAllMigDevices"
    [] OTHER -> "Merge"

\* a switch whose default case falls back to the mixed strategy
StrategyBranchFallbackMixed(s) ==
  CASE s = MigStrategyNone -> "Merge"
    [] s = MigStrategySingle -> "GetDevicesWithMigEnabled"
    [] OTHER -> "mixed.GetAllMigDevices"

\* where the switch of newMigLabeler (lines 86-101) sends the pass
StrategyBranch(s) ==
  CASE s = MigStrategyNone -> "Merge"
    [] s = MigStrategySingle -> "GetDevicesWithMigEnabled"
    [] s = MigStrategyMixed -> "mixed.GetAllMigDevices"
    [] OTHER -> "unknown"

\* lines 60-66 and the switch of newMigLabeler: no device query is made
SelectStrategy ==
  /\ pc = "newMigLabeler"
  /\ IF strategy = MigStrategyNone
     THEN /\ pc' = "done"
          /\ result' = Labels(<< fullGPULabeler >>)
          /\ UNCHANGED << err, failed >>
     ELSE IF StrategyBranch(strategy) = "unknown"
          THEN Abort("", "config")
          ELSE /\ pc' = StrategyBranch(strategy)
               /\ UNCHANGED << err, failed, result >>
  /\ UNCHANGED << strategy, devices, queries, fullGPULabeler, reason, migs, idx,
                  resources, pending, labeler, merges >>

(* -------------------- newMigStrategySingleLabeler ---------------------- *)
\* the early return of line 148-150 left out
SingleGetEnabledNoEarlyReturn ==
  /\ pc = "GetDevicesWithMigEnabled"
  /\ Called("GetDevicesWithMigEnabled")
  /\ \E ok \in BOOLEAN :
       IF ~ok
       THEN Abort("GetDevicesWithMigEnabled", "query")
       ELSE /\ pc' = "AnyMigEnabledDeviceIsEmpty"
            /\ UNCHANGED << err, failed, result >>
  /\ UNCHANGED << strategy, devices, fullGPULabeler, reason, migs, idx,
                  resources, pending, labeler, merges >>

\* lines 143-150
SingleGetEnabled ==
  /\ pc = "GetDevicesWithMigEnabled"
  /\ Called("GetDevicesWithMigEnabled")
  /\ \E ok \in BOOLEAN :
       IF ~ok
       THEN Abort("GetDevicesWithMigEnabled", "query")
       ELSE /\ pc' = IF Len(GetDevicesWithMigEnabled(devices)) = 0
                     THEN "Merge"
                     ELSE "AnyMigEnabledDeviceIsEmpty"
            /\ UNCHANGED << err, failed, result >>
  /\ UNCHANGED << strategy, devices, fullGPULabeler, reason, migs, idx,
                  resources, pending, labeler, merges >>

\* the emptiness check made but its verdict left to the later checks
SingleAnyEmptyIgnored ==
  /\ pc = "AnyMigEnabledDeviceIsEmpty"
  /\ Called("AnyMigEnabledDeviceIsEmpty")
  /\ \E ok \in BOOLEAN :
       IF ~ok
       THEN Abort("AnyMigEnabledDeviceIsEmpty", "query")
       ELSE /\ pc' = "GetDevicesWithMigDisabled"
            /\ UNCHANGED << err, failed, result >>
  /\ UNCHANGED << strategy, devices, fullGPULabeler, reason, migs, idx,
                  resources, pending, labeler, merges >>

\* lines 152-159; newInvalidMigStrategyLabeler logs the reason first (line 205)
SingleAnyEmpty ==
  /\ pc = "AnyMigEnabledDeviceIsEmpty"
  /\ Called("AnyMigEnabledDeviceIsEmpty")
  /\ \E ok \in BOOLEAN :
       IF ~ok
       THEN /\ Abort("AnyMigEnabledDeviceIsEmpty", "query")
            /\ UNCHANGED reason
       ELSE /\ IF AnyMigEnabledDeviceIsEmpty(devices)
               THEN pc' = "invalid.NewDevice" /\ reason' = ReasonEmpty
               ELSE pc' = "GetDevicesWithMigDisabled" /\ UNCHANGED reason
            /\ UNCHANGED << err, failed, result >>
  /\ UNCHANGED << strategy, devices, fullGPULabeler, migs, idx,
                  resources, pending, labeler, merges >>

\* lines 161-168
SingleGetDisabled ==
  /\ pc = "GetDevicesWithMigDisabled"
  /\ Called("GetDevicesWithMigDisabled")
  /\ \E ok \in BOOLEAN :
       IF ~ok
       THEN /\ Abort("GetDevicesWithMigDisabled", "query")
            /\ UNCHANGED reason
       ELSE /\ IF Len(GetDevicesWithMigDisabled(devices)) # 0
               THEN pc' = "invalid.NewDevice" /\ reason' = ReasonMixed
               ELSE pc' = "single.GetAllMigDevices" /\ UNCHANGED reason
            /\ UNCHANGED << err, failed, result >>
  /\ UNCHANGED << strategy, devices, fullGPULabeler, migs, idx,
                  resources, pending, labeler, merges >>

\* lines 170-177
SingleGetAllMigs ==
  /\ pc = "single.GetAllMigDevices"
  /\ Called("GetAllMigDevices")
  /\ \E ok \in BOOLEAN :
       IF ~ok
       THEN /\ Abort("GetAllMigDevices", "query")
            /\ UNCHANGED << migs, idx, resources >>
       ELSE /\ migs' = GetAllMigDevices(devices)
            /\ idx' = 1
            /\ resources' = NoResources
            /\ pc' = "single.range"
            /\ UNCHANGED << err, failed, result >>
  /\ UNCHANGED << strategy, devices, fullGPULabeler, reason,
                  pending, labeler, merges >>

\* lines 178-194: one iteration of the loop
SingleAggregate ==
  /\ pc = "single.range"
  /\ idx <= Len(migs)
  /\ Called("GetAttributes")
  /\ \E ok \in BOOLEAN :
       IF ~ok
       THEN /\ Abort("GetAttributes", "query")
            /\ UNCHANGED << idx, resources >>
       ELSE LET name == getMigDeviceName(GetAttributes(devices, migs[idx]))
            IN /\ resources' = AddResource(resources, name, migs[idx],
                                           SingleResourceName(name))
               /\ idx' = idx + 1
               /\ UNCHANGED << pc, err, failed, result >>
  /\ UNCHANGED << strategy, devices, fullGPULabeler, reason, migs,
                  pending, labeler, merges >>

\* a test for the empty map only
SingleIsInvalidOnlyEmpty(res) == Cardinality(DOMAIN res) = 0

\* line 197
SingleIsInvalid(res) == Cardinality(DOMAIN res) # 1

\* lines 196-201, and the head of newMIGDeviceLabelers
SingleCheckResources ==
  /\ pc = "single.range"
  /\ idx > Len(migs)
  /\ IF SingleIsInvalid(resources)
     THEN /\ pc' = "invalid.NewDevice"
          /\ reason' = ReasonMultiple
          /\ UNCHANGED << pending, labeler >>
     ELSE /\ pc' = "newMIGDeviceLabelers"
          /\ pending' = DOMAIN resources
          /\ labeler' = <<>>
          /\ UNCHANGED reason
  /\ UNCHANGED << strategy, devices, err, result, failed, queries, fullGPULabeler,
                  migs, idx, resources, merges >>

(* -------------------- newInvalidMigStrategyLabeler --------------------- *)
\* lines 207-210
InvalidNewDevice ==
  /\ pc = "invalid.NewDevice"
  /\ Called("NewDevice")
  /\ \E ok \in BOOLEAN :
       IF ~ok
       THEN Abort("NewDevice", "query")
       ELSE /\ pc' = "invalid.GetName"
            /\ UNCHANGED << err, failed, result >>
  /\ UNCHANGED << strategy, devices, fullGPULabeler, reason, migs, idx,
                  resources, pending, labeler, merges >>

\* lines 212-226
InvalidGetName ==
  /\ pc = "invalid.GetName"
  /\ Called("GetName")
  /\ \E ok \in BOOLEAN :
       IF ~ok
       THEN /\ Abort("GetName", "query")
            /\ UNCHANGED labeler
       ELSE /\ labeler' = << InvalidLabels >>
            /\ pc' = "Merge"
            /\ UNCHANGED << err, failed, result >>
  /\ UNCHANGED << strategy, devices, fullGPULabeler, reason, migs, idx,
                  resources, pending, merges >>

(* --------------------- newMigStrategyMixedLabeler ---------------------- *)
\* a failed GetAllMigDevices taken for a node without MIG devices
MixedGetAllMigsDefaulted ==
  /\ pc = "mixed.GetAllMigDevices"
  /\ Called("GetAllMigDevices")
  /\ \E ok \in BOOLEAN :
       /\ migs' = IF ok THEN GetAllMigDevices(devices) ELSE <<>>
       /\ failed' = IF ok THEN failed ELSE "GetAllMigDevices"
       /\ idx' = 1
       /\ resources' = NoResources
       /\ pc' = "mixed.range"
       /\ UNCHANGED << err, result >>
  /\ UNCHANGED << strategy, devices, fullGPULabeler, reason,
                  pending, labeler, merges >>

\* lines 235-241
MixedGetAllMigs ==
  /\ pc = "mixed.GetAllMigDevices"
  /\ Called("GetAllMigDevices")
  /\ \E ok \in BOOLEAN :
       IF ~ok
       THEN /\ Abort("GetAllMigDevices", "query")
            /\ UNCHANGED << migs, idx, resources >>
       ELSE /\ migs' = GetAllMigDevices(devices)
            /\ idx' = 1
            /\ resources' = NoResources
            /\ pc' = "mixed.range"
            /\ UNCHANGED << err, failed, result >>
  /\ UNCHANGED << strategy, devices, fullGPULabeler, reason,
                  pending, labeler, merges >>

\* lines 242-258: one iteration of the loop
MixedAggregate ==
  /\ pc = "mixed.range"
  /\ idx <= Len(migs)
  /\ Called("GetAttributes")
  /\ \E ok \in BOOLEAN :
       IF ~ok
       THEN /\ Abort("GetAttributes", "query")
            /\ UNCHANGED << idx, resources >>
       ELSE LET name == getMigDeviceName(GetAttributes(devices, migs[idx]))
            IN /\ resources' = AddResource(resources, name, migs[idx],
                                           MixedResourceName(name))
               /\ idx' = idx + 1
               /\ UNCHANGED << pc, err, failed, result >>
  /\ UNCHANGED << strategy, devices, fullGPULabeler, reason, migs,
                  pending, labeler, merges >>

\* line 260, and the head of newMIGDeviceLabelers
MixedDone ==
  /\ pc = "mixed.range"
  /\ idx > Len(migs)
  /\ pc' = "newMIGDeviceLabelers"
  /\ pending' = DOMAIN resources
  /\ labeler' = <<>>
  /\ UNCHANGED << strategy, devices, err, result, failed, queries, fullGPULabeler,
                  reason, migs, idx, resources, merges >>

(* ------------------------ newMIGDeviceLabelers ------------------------- *)
\* lines 265-272: one iteration; a Go map is ranged over in any order
MIGDeviceLabeler ==
  /\ pc = "newMIGDeviceLabelers"
  /\ \E name \in pending :
       /\ Called("NewMIGResourceLabeler")
       /\ \E ok \in BOOLEAN :
            IF ~ok
            THEN /\ Abort("NewMIGResourceLabeler", "query")
                 /\ UNCHANGED << pending, labeler >>
            ELSE /\ labeler' = Append(labeler, NewMIGResourceLabeler(resources[name]))
                 /\ pending' = pending \ {name}
                 /\ UNCHANGED << pc, err, failed, result >>
  /\ UNCHANGED << strategy, devices, fullGPULabeler, reason, migs, idx,
                  resources, merges >>

\* line 274: the list of the per-flavor label sets is the strategy's labeler
MIGDeviceLabelersDone ==
  /\ pc = "newMIGDeviceLabelers"
  /\ pending = {}
  /\ pc' = "Merge"
  /\ merges' = Append(merges, KeySets(labeler))
  /\ UNCHANGED << strategy, devices, err, result, failed, queries, fullGPULabeler,
                  reason, migs, idx, resources, pending, labeler >>

(* ------------------------------ Merge ---------------------------------- *)
\* lines 103-108 then 69-74: Merge(migStrategyLabeler, labeler), then
\* Merge(fullGPULabeler, migLabeler)
MergeLabelers ==
  /\ pc = "Merge"
  /\ LET migLabeler == << migStrategyLabeler(strategy) >> \o labeler
     IN /\ merges' = merges \o << KeySets(migLabeler),
                                  << fullGPULabeler.keys,
                                     UNION { migLabeler[i].keys : i \in 1..Len(migLabeler) } >> >>
        /\ result' = Labels(<< fullGPULabeler >> \o migLabeler)
  /\ pc' = "done"
  /\ UNCHANGED << strategy, devices, err, failed, queries, fullGPULabeler,
                  reason, migs, idx, resources, pending, labeler >>

Next ==
  \/ GetDeviceCount
  \/ GPUGetDeviceCount
  \/ GPUNewDevice
  \/ GPUResourceLabeler
  \/ SelectStrategy
  \/ SingleGetEnabled
  \/ SingleAnyEmpty
  \/ SingleGetDisabled
  \/ SingleGetAllMigs
  \/ SingleAggregate
  \/ SingleCheckResources
  \/ InvalidNewDevice
  \/ InvalidGetName
  \/ MixedGetAllMigs
  \/ MixedAggregate
  \/ MixedDone
  \/ MIGDeviceLabeler
  \/ MIGDeviceLabelersDone
  \/ MergeLabelers

Spec == Init /\ [][Next]_vars

SpecFlavor == InitFlavor /\ [][Next]_vars


(* ====================== the inventory, restated ======================== *)
\* the partition sub-devices of the node: accelerator index and position
SubDevices ==
  UNION { { << i, j >> : j \in 1..Len(devices[i].migs) } : i \in 1..Len(devices) }

EnabledDevices == { i \in 1..Len(devices) : devices[i].enabled }
DisabledDevices == { i \in 1..Len(devices) : ~devices[i].enabled }
EmptyEnabledDevices == { i \in EnabledDevices : devices[i].migs = <<>> }

\* the least k with k * 1024 >= m
CeilGB(m) ==
  CHOOSE k \in 0..(m \div 1024 + 1) :
    /\ k * 1024 >= m
    /\ \A l \in 0..(m \div 1024 + 1) : l * 1024 >= m => k <= l

AttrOf(p) == devices[p[1]].migs[p[2]]
FlavorOf(attr) == << attr.g, CeilGB(attr.mem) >>
FlavorsPresent == { FlavorOf(AttrOf(p)) : p \in SubDevices }
SubDevicesOf(flavor) == { p \in SubDevices : FlavorOf(AttrOf(p)) = flavor }

\* "<s>g.<gb>gb"
FlavorName(flavor) ==
  FormatDecimal(flavor[1]) \o "g." \o FormatDecimal(flavor[2]) \o "gb"

OfKind(list, kind) == SelectSeq(list, LAMBDA l : l.kind = kind)
Finished == pc = "done" /\ result.status = "ok"

\* the first rule of the single strategy the inventory violates
FirstViolated ==
  IF EmptyEnabledDevices # {} THEN {ReasonEmpty}
  ELSE IF DisabledDevices # {} THEN {ReasonMixed}
  ELSE {ReasonMultiple, NoReason}

(* =============================== claims ================================ *)
\* C1: under `single` with an enabled accelerator the reason reported is the
\* one of the first violated rule in the order emptiness, mixed enablement,
\* several flavors; a pass that completes has reported it, and no reason is
\* reported under another strategy or without an enabled accelerator.
C1_Precedence ==
  /\ reason # NoReason =>
       /\ strategy = MigStrategySingle
       /\ EnabledDevices # {}
       /\ reason \in FirstViolated
  /\ (strategy = MigStrategySingle /\ EnabledDevices # {} /\ Finished) =>
       /\ reason \in FirstViolated
       /\ (EmptyEnabledDevices # {} \/ DisabledDevices # {}) =>
            OfKind(result.labels, "invalid") = << InvalidLabels >>

C1_Witness ==
  /\ strategy = MigStrategySingle
  /\ Finished
  /\ EmptyEnabledDevices # {}
  /\ DisabledDevices # {}
  /\ Cardinality(FlavorsPresent) >= 2
  /\ reason = ReasonEmpty

\* C2: under `single`, with every accelerator enabled, none empty and one
\* flavor on the node, a completed pass holds exactly one resource record,
\* named nvidia.com/gpu, whose count is the number of sub-devices of the
\* node, and no invalid label set.
C2_SingleUniform ==
  ( /\ strategy = MigStrategySingle
    /\ Finished
    /\ EnabledDevices # {}
    /\ DisabledDevices = {}
    /\ EmptyEnabledDevices = {}
    /\ Cardinality(FlavorsPresent) = 1 ) =>
      /\ Cardinality(DOMAIN resources) = 1
      /\ \A n \in DOMAIN resources :
           /\ resources[n].name = "nvidia.com/gpu"
           /\ resources[n].count = Cardinality(SubDevices)
      /\ OfKind(result.labels, "mig") =
           << LabelSet("mig", "nvidia.com/gpu", Cardinality(SubDevices),
                       LabelKeys("nvidia.com/gpu")) >>
      /\ OfKind(result.labels, "invalid") = <<>>
      /\ reason = NoReason

C2_Witness ==
  /\ strategy = MigStrategySingle
  /\ Finished
  /\ Cardinality(EnabledDevices) >= 2
  /\ DisabledDevices = {}
  /\ Cardinality(SubDevices) >= 3
  /\ \E p, q \in SubDevices : AttrOf(p).mem # AttrOf(q).mem
  /\ Len(OfKind(result.labels, "mig")) = 1
  /\ OfKind(result.labels, "mig")[1].count = Cardinality(SubDevices)

\* C3: under `mixed` a completed pass holds exactly one resource record per
\* flavor present, named nvidia.com/mig-<flavor> and counting the sub-devices
\* of that flavor; empty enabled accelerators add nothing, and no invalid
\* label set or reason is ever produced.
C3_MixedPerFlavor ==
  strategy = MigStrategyMixed =>
    /\ reason = NoReason
    /\ OfKind(labeler, "invalid") = <<>>
    /\ Finished =>
         LET records == OfKind(result.labels, "mig")
         IN /\ Len(records) = Cardinality(FlavorsPresent)
            /\ { << records[i].name, records[i].count >> : i \in 1..Len(records) } =
                 { << "nvidia.com/mig-" \o FlavorName(f), Cardinality(SubDevicesOf(f)) >> :
                     f \in FlavorsPresent }
            /\ OfKind(result.labels, "invalid") = <<>>

C3_Witness ==
  /\ strategy = MigStrategyMixed
  /\ Finished
  /\ EmptyEnabledDevices # {}
  /\ LET records == OfKind(result.labels, "mig")
     IN { << records[i].name, records[i].count >> : i \in 1..Len(records) } =
          { << "nvidia.com/mig-1g.5gb", 2 >>, << "nvidia.com/mig-3g.20gb", 1 >> }

\* the queries NewResourceLabeler makes before it looks at the strategy
FullGPUQueries ==
  << "GetDeviceCount", "GetDeviceCount", "NewDevice", "NewGPUResourceLabeler" >>

\* C4 as stated: with an unrecognized strategy a pass in which no query
\* failed ends with the configuration error, whatever the device count.
C4_AlwaysConfigError ==
  (strategy = UnknownStrategy /\ pc = "done" /\ failed = "") => err = "config"

\* C4 amended: with an unrecognized strategy the pass ends with the
\* configuration error when there is a device and the queries of the
\* full-device labels succeed, with the error of the query when one fails,
\* and with the empty label set and no error when the device count is zero;
\* no other label set is returned.
C4_ConfigErrorUnlessNoDevices ==
  (strategy = UnknownStrategy /\ pc = "done") =>
    IF failed # ""
    THEN err = "query" /\ result = Failure
    ELSE IF Len(devices) = 0
         THEN err = "none" /\ result = Labels(<<>>)
         ELSE err = "config" /\ result = Failure

C4_Witness ==
  /\ strategy = UnknownStrategy
  /\ pc = "done"
  /\ Len(devices) >= 1
  /\ EnabledDevices # {}
  /\ err = "config"
  /\ result = Failure

\* C5 as stated: when the configuration error is raised no device query has
\* been made.
C5_NoQueryBeforeConfigError ==
  err = "config" => queries = <<>>

\* C5 amended: with an unrecognized strategy the only device queries of the
\* pass are the two device-count reads, the device-handle read and the
\* construction of the full-device labels, in that order; the configuration
\* error is raised after all four and before any query of the MIG inventory.
C5_ConfigErrorAfterFullGPUQueries ==
  strategy = UnknownStrategy =>
    /\ Len(queries) <= Len(FullGPUQueries)
    /\ queries = SubSeq(FullGPUQueries, 1, Len(queries))
    /\ err = "config" => queries = FullGPUQueries

C5_Witness ==
  /\ strategy = UnknownStrategy
  /\ err = "config"
  /\ queries = FullGPUQueries

\* C6: once a device query has failed the pass is over, with an error and
\* without a label set; a pass that returns a label set had no failed query.
C6_NoPartialLabels ==
  /\ failed # "" => (pc = "done" /\ err = "query" /\ result = Failure)
  /\ result.status = "ok" => failed = ""
  /\ result.status # "ok" => result.labels = <<>>

C6_Witness ==
  /\ failed = "GetAttributes"
  /\ Cardinality(DOMAIN resources) >= 1
  /\ fullGPULabeler.kind = "full"
  /\ result = Failure

\* no key in two label sets of a composed list
DisjointKeys(group) ==
  \A i, j \in 1..Len(group) : i # j => group[i] \cap group[j] = {}

\* C7 as stated: no key occurs in two of the label sets composed, for every
\* strategy and inventory.
C7_NoKeyCollision ==
  \A m \in 1..Len(merges) : DisjointKeys(merges[m])

\* C7 amended: no key occurs in two of the label sets composed under `none`
\* and `mixed`, under `single` without an enabled accelerator, and among the
\* per-flavor label sets; under `single` with an enabled accelerator the
\* full-device labels and the partition labels (valid or invalid) both hold
\* the keys of nvidia.com/gpu.
C7_CollisionOnlyUnderSingle ==
  /\ (strategy # MigStrategySingle \/ EnabledDevices = {}) =>
       \A m \in 1..Len(merges) : DisjointKeys(merges[m])
  /\ \A m \in 1..Len(merges) :
       ~DisjointKeys(merges[m]) =>
          /\ m = Len(merges)
          /\ pc = "done"
          /\ merges[m][1] \cap merges[m][2] = LabelKeys("nvidia.com/gpu")
  /\ (strategy = MigStrategySingle /\ EnabledDevices # {} /\ Finished) =>
       ~DisjointKeys(merges[Len(merges)])

C7_Witness ==
  /\ strategy = MigStrategyMixed
  /\ Finished
  /\ Cardinality(FlavorsPresent) >= 2
  /\ Len(merges) = 3
  /\ Len(merges[1]) = 2

\* the queries of the checks after the one for enabled accelerators
LaterChecks ==
  { "AnyMigEnabledDeviceIsEmpty", "GetDevicesWithMigDisabled",
    "GetAllMigDevices", "GetAttributes", "GetName" }

\* C8: under `single` without an enabled accelerator the partition-based
\* result is empty, no reason is reported, none of the later checks is
\* made, and the pass ends without error unless a query failed.
C8_SingleNoEnabled ==
  (strategy = MigStrategySingle /\ EnabledDevices = {}) =>
    /\ reason = NoReason
    /\ labeler = <<>>
    /\ \A k \in 1..Len(queries) : queries[k] \notin LaterChecks
    /\ (pc = "done" /\ failed = "") =>
         /\ err = "none"
         /\ result.status = "ok"
         /\ OfKind(result.labels, "mig") = <<>>
         /\ OfKind(result.labels, "invalid") = <<>>

C8_Witness ==
  /\ strategy = MigStrategySingle
  /\ Cardinality(DisabledDevices) >= 2
  /\ EnabledDevices = {}
  /\ Finished
  /\ queries[Len(queries)] = "GetDevicesWithMigEnabled"
  /\ result.labels = << fullGPULabeler, migStrategyLabeler(MigStrategySingle) >>

\* the attributes of the sub-devices the range loop has been through
Named == { GetAttributes(devices, migs[k]) : k \in 1..(idx - 1) }

\* C9: the name of a sub-device of slice count s and memory m is
\* "<s>g.<gb>gb" with gb the ceiling of m / 1024 (1024, 1025 and 20096 give
\* 1, 2 and 20), and two sub-devices get one name exactly when their slice
\* counts and their ceilings are equal.
C9_FlavorName ==
  /\ \A a \in Named : FlavorName(FlavorOf(a)) \in DOMAIN resources
  /\ Cardinality(DOMAIN resources) = Cardinality({ FlavorOf(a) : a \in Named })
  /\ \A a \in Named :
       /\ (a.g = 1 /\ a.mem = 1024) => "1g.1gb" \in DOMAIN resources
       /\ (a.g = 1 /\ a.mem = 1025) => "1g.2gb" \in DOMAIN resources
       /\ (a.g = 3 /\ a.mem = 20096) => "3g.20gb" \in DOMAIN resources
       /\ \A n \in DOMAIN resources :
            GetAttributes(devices, resources[n].device) = a =>
              n = FlavorName(<< a.g, CeilGB(a.mem) >>)

C9_Witness ==
  /\ strategy = MigStrategyMixed
  /\ Finished
  /\ \E a, b \in Named : a.g = b.g /\ a.mem = 1025 /\ b.mem = 2048
  /\ DOMAIN resources = { "3g.2gb" }

\* C10: under `single` a resource record is emitted only when every
\* accelerator is enabled, none is empty and one flavor is present; the
\* several-flavors reason is reported only with two flavors or more, and the
\* aggregation of a node that passed the earlier checks is never empty.
C10_SingleValidOnlyUniform ==
  strategy = MigStrategySingle =>
    /\ OfKind(labeler, "mig") # <<>> =>
         /\ EnabledDevices # {}
         /\ DisabledDevices = {}
         /\ EmptyEnabledDevices = {}
         /\ Cardinality(FlavorsPresent) = 1
    /\ reason = ReasonMultiple => Cardinality(FlavorsPresent) >= 2
    /\ (pc = "single.range" /\ idx > Len(migs)) => DOMAIN resources # {}

C10_Witness ==
  /\ strategy = MigStrategySingle
  /\ Finished
  /\ reason = ReasonMultiple
  /\ Cardinality(EnabledDevices) >= 2
  /\ OfKind(result.labels, "invalid") = << InvalidLabels >>

====
